---- MODULE Spec2Model ----
(***************************************************************************)
(* A model of the PicStar server: the in-memory job queue, the per-        *)
(* subcategory template serial counter, the payment ledger with its        *)
(* verify-payment and webhook handlers, the OTP sign-in flow and the       *)
(* account-deletion scheduling endpoint.  Each subsystem has its own       *)
(* specification over the shared state; the variables of the other         *)
(* subsystems stay at their initial values.                                *)
(***************************************************************************)
EXTENDS Integers, Sequences, FiniteSets, TLC

VARIABLES
    \* ---- job queue (jobs/job-queue.js)
    jobs,          \* jobId -> job record; ids are 1..Len(jobs) in creation order
    queue,         \* FIFO of jobIds
    isProcessing,  \* the runner's busy flag
    immediates,    \* number of setImmediate(processNext) callbacks not yet run
    \* ---- template serials (models/Template.js, models/Counter.js)
    counters,      \* Counter collection: key -> seq (0 = no document yet)
    templates,     \* Template collection: set of [subcategory, serial_no]
    uploads,       \* in-flight and finished creation requests
    batchResp,     \* the last response of the batch and delete endpoints
    \* ---- payments (payment-controller.js, razorpay-service.js)
    webhookSecret, \* config.razorpay.webhookSecret (0 = not configured)
    txStatus,      \* orderId -> "none" | "pending" | "paid" | "failed"
    txOwner,       \* orderId -> owning user (0 = none)
    subscription,  \* user -> [status, lastTransactionId]
    payResp,       \* the last response of the payment endpoints
    \* ---- users, OTP and account deletion
    now,           \* the wall clock, in minutes
    users,         \* phone -> user record
    authResp,      \* the last response of the auth endpoints
    delReqs,       \* sequence of DeletionRequest records
    delResp,       \* the last response of the schedule-deletion endpoint
    \* ---- the deletion routes' OTP store
    otpStore,      \* phone -> [otpHash, otpExpiry]; otpHash 0 = no entry
    otpTimers,     \* the pending setTimeout callbacks: [phone, fireAt]
    \* ---- CDN-search catalogue (template-controller.js)
    searchResults, \* what the CDN answers to each search strategy: -1 throws
    listResp,      \* the last response of the category listing
    \* ---- overlapping OTP send requests (auth-controller.js, deletion routes)
    sendReqs,      \* the OTP send requests, in arrival order, each with its position
    \* ---- concurrent deletion-request submissions (deletion routes)
    subReqs,       \* the submissions, in arrival order, each with its position
    \* ---- disk-staged uploads and the cleanup sweep (multer, cleanup-service.js)
    stagedReqs,    \* the disk-staged upload requests, in arrival order
    disk,          \* the files of the uploads directory: [req, name, mtime]
    \* ---- bearer-token middleware (auth-middleware.js, auth-api routes/auth.js)
    jwtSecret,     \* config.auth.jwtSecret of the main server
    authApiSecret, \* process.env.JWT_SECRET of the auth microservice
    mwResp,        \* what authRequired did with the last request
    \* ---- the notification cache (notification-service.js)
    videos,        \* ids of the Template documents with resource_type 'video'
    videosCreated, \* how many video templates have been created
    currentNotification, \* this.currentNotification: a video id, 0 = null
    selectResp     \* what the last selectRandomVideo saw and returned

jobVars == <<jobs, queue, isProcessing, immediates>>
serialVars == <<counters, templates, uploads, batchResp>>
payVars == <<webhookSecret, txStatus, txOwner, subscription, payResp>>
userVars == <<now, users, authResp>>
delVars == <<delReqs, delResp>>
cdnVars == <<searchResults, listResp>>
delOtpVars == <<otpStore, otpTimers>>
sendVars == <<sendReqs>>
submitVars == <<subReqs>>
stageVars == <<stagedReqs, disk>>
authMwVars == <<jwtSecret, authApiSecret, mwResp>>
notifyVars == <<videos, videosCreated, currentNotification, selectResp>>
vars == <<jobs, queue, isProcessing, immediates, counters, templates, uploads, batchResp,
          webhookSecret, txStatus, txOwner, subscription, payResp,
          now, users, authResp, delReqs, delResp, searchResults, listResp,
          otpStore, otpTimers,
          sendReqs,
          subReqs,
          stagedReqs, disk,
          jwtSecret, authApiSecret, mwResp,
          videos, videosCreated, currentNotification, selectResp>>

notJobVars == <<serialVars, payVars, userVars, delVars, cdnVars, delOtpVars, sendVars, submitVars, stageVars, authMwVars, notifyVars>>
notSerialVars == <<jobVars, payVars, userVars, delVars, cdnVars, delOtpVars, sendVars, submitVars, stageVars, authMwVars, notifyVars>>
notPayVars == <<jobVars, serialVars, userVars, delVars, cdnVars, delOtpVars, sendVars, submitVars, stageVars, authMwVars, notifyVars>>
notUserVars == <<jobVars, serialVars, payVars, delVars, cdnVars, delOtpVars, sendVars, submitVars, stageVars, authMwVars, notifyVars>>
notUserDelVars == <<jobVars, serialVars, payVars, cdnVars, delOtpVars, sendVars, submitVars, stageVars, authMwVars, notifyVars>>
notCdnVars == <<jobVars, serialVars, payVars, userVars, delVars, delOtpVars, sendVars, submitVars, stageVars, authMwVars, notifyVars>>
notDelOtpVars == <<jobVars, serialVars, payVars, cdnVars, sendVars, submitVars, stageVars, authMwVars, notifyVars>>
notSendVars == <<jobVars, serialVars, payVars, userVars, delVars, cdnVars, delOtpVars, submitVars, stageVars, authMwVars, notifyVars>>
notSubmitVars == <<jobVars, serialVars, payVars, userVars, delVars, cdnVars, delOtpVars, sendVars, stageVars, authMwVars, notifyVars>>
notSendStoreVars == <<jobVars, serialVars, payVars, delVars, cdnVars, submitVars, stageVars, authMwVars, notifyVars>>
notSubmitStoreVars == <<jobVars, serialVars, payVars, cdnVars, sendVars, stageVars, authMwVars, notifyVars>>
notStageVars == <<jobVars, serialVars, payVars, userVars, delVars, cdnVars, delOtpVars, sendVars, submitVars, authMwVars, notifyVars>>
notStageStoreVars == <<jobVars, payVars, delVars, cdnVars, delOtpVars, sendVars, submitVars, authMwVars, notifyVars>>
notAuthMwVars == <<jobVars, serialVars, payVars, userVars, delVars, cdnVars, delOtpVars, sendVars, submitVars, stageVars, notifyVars>>
notNotifyVars == <<jobVars, serialVars, payVars, userVars, delVars, cdnVars, delOtpVars, sendVars, submitVars, stageVars, authMwVars>>

Max(a, b) == IF a >= b THEN a ELSE b
Min(a, b) == IF a <= b THEN a ELSE b

(***************************************************************************)
(* The job queue                                                           *)
(***************************************************************************)
MaxJobs == 3

\* the job types the callers use, and one no processor is registered for
JobTypes == {"single-image", "batch-image", "unregistered"}

\* processors: the registry filled by registerProcessor at load time
processors == {"single-image", "batch-image"}

\* the values a batch processor reports through ctx.reportProgress
ProgressInputs == {50, 100}

Terminal == {"completed", "failed"}

JobsInit ==
    /\ jobs = <<>>
    /\ queue = <<>>
    /\ isProcessing = FALSE
    /\ immediates = 0

\* scheduleProcess: one more pending callback unless the runner is busy
ScheduleNothing(n) == n
scheduleProcess(n) == IF ~isProcessing THEN n + 1 ELSE n

createJob(type) ==
    /\ UNCHANGED notJobVars
    /\ Len(jobs) < MaxJobs
    /\ jobs' = Append(jobs, [type |-> type, status |-> "queued", progress |-> 0,
                             payload |-> TRUE, result |-> FALSE, error |-> "null"])
    /\ queue' = Append(queue, Len(jobs) + 1)
    /\ immediates' = scheduleProcess(immediates)
    /\ UNCHANGED isProcessing

\* `if (isProcessing) return;` at the top of processNext
BusyNever == FALSE
Busy == isProcessing

\* queue.shift(): the id taken and the queue left
DequeueLast(q) == [id |-> q[Len(q)], rest |-> SubSeq(q, 1, Len(q) - 1)]
Dequeue(q) == [id |-> Head(q), rest |-> Tail(q)]

\* the body of processNext after the busy check: jobs of a type without a
\* processor fail at once and the function calls itself for the next id
RECURSIVE ProcessNextFrom(_, _)
ProcessNextFrom(js, q) ==
    IF q = <<>>
    THEN [jobs |-> js, queue |-> q, started |-> FALSE]
    ELSE LET d == Dequeue(q) IN
         IF js[d.id].type \notin processors
         THEN ProcessNextFrom([js EXCEPT ![d.id].status = "failed",
                                         ![d.id].error = "no-processor"], d.rest)
         ELSE [jobs |-> [js EXCEPT ![d.id].status = "processing"],
               queue |-> d.rest, started |-> TRUE]

\* one scheduled callback runs processNext up to its await
processNext ==
    /\ UNCHANGED notJobVars
    /\ immediates > 0
    /\ IF Busy
       THEN /\ immediates' = immediates - 1
            /\ UNCHANGED <<jobs, queue, isProcessing>>
       ELSE LET r == ProcessNextFrom(jobs, queue) IN
            /\ jobs' = r.jobs
            /\ queue' = r.queue
            /\ isProcessing' = (isProcessing \/ r.started)
            /\ immediates' = immediates - 1

\* ctx.reportProgress(value)
Clamp(v) == Max(0, Min(100, v))

\* the running batch processor reports progress
reportProgress(j, v) ==
    /\ UNCHANGED notJobVars
    /\ j \in 1..Len(jobs)
    /\ jobs[j].status = "processing"
    /\ jobs[j].type = "batch-image"
    /\ jobs' = [jobs EXCEPT ![j].progress = Clamp(v)]
    /\ UNCHANGED <<queue, isProcessing, immediates>>

\* `job.progress = 100` on success
KeepProgress(p) == p
CompletedProgress(p) == 100

\* the awaited processor returns: try block, then finally
processorResolves(j) ==
    /\ UNCHANGED notJobVars
    /\ j \in 1..Len(jobs)
    /\ jobs[j].status = "processing"
    /\ jobs' = [jobs EXCEPT ![j].status = "completed", ![j].result = TRUE,
                            ![j].progress = CompletedProgress(jobs[j].progress),
                            ![j].payload = FALSE]
    /\ isProcessing' = FALSE
    /\ immediates' = immediates + 1
    /\ UNCHANGED queue

\* the awaited processor throws: catch block, then finally
processorRejects(j) ==
    /\ UNCHANGED notJobVars
    /\ j \in 1..Len(jobs)
    /\ jobs[j].status = "processing"
    /\ jobs' = [jobs EXCEPT ![j].status = "failed", ![j].error = "thrown",
                            ![j].payload = FALSE]
    /\ isProcessing' = FALSE
    /\ immediates' = immediates + 1
    /\ UNCHANGED queue

\* the file buffers a single-image job can carry: empty, or the bytes of an
\* upload; a buffer is the sequence of the stages that produced it
BufferInputs == {<<>>, <<"upload">>}

\* which of the three stages fail on a buffer
StageFailures == [preResize : BOOLEAN, removeBackground : BOOLEAN, finalizePng : BOOLEAN]

\* preResize: the resized buffer, or the input when sharp throws
preResize(buffer, fails) == IF fails THEN buffer ELSE Append(buffer, "resized")

\* removeBackground: the matted buffer, or the input when the matting throws
removeBackground(buffer, fails) == IF fails THEN buffer ELSE Append(buffer, "matted")

\* finalizePng has no try/catch: what it returns, or that it threw
finalizePng(buffer, fails) ==
    IF fails THEN [threw |-> TRUE, buffer |-> <<>>]
    ELSE [threw |-> FALSE, buffer |-> Append(buffer, "png")]

\* processSingle: throws on an empty buffer, runs the three stages, and
\* throws when finalizePng throws
processSingle(buffer, fails) ==
    IF Len(buffer) = 0 THEN [threw |-> TRUE, success |-> FALSE, processedImage |-> <<>>]
    ELSE LET resized == preResize(buffer, fails.preResize)
             removed == removeBackground(resized, fails.removeBackground)
             processed == finalizePng(removed, fails.finalizePng) IN
         IF processed.threw
         THEN [threw |-> TRUE, success |-> FALSE, processedImage |-> <<>>]
         ELSE [threw |-> FALSE, success |-> TRUE, processedImage |-> processed.buffer]

\* the runner awaits processSingle for a single-image job: the try block on
\* a return, the catch block on a throw
singleProcessorRuns(j, buffer, fails) ==
    /\ j \in 1..Len(jobs)
    /\ jobs[j].type = "single-image"
    /\ IF processSingle(buffer, fails).threw
       THEN processorRejects(j)
       ELSE processorResolves(j)

\* getJob as the status endpoint reads it
getJob(j) == IF j \in 1..Len(jobs) THEN jobs[j] ELSE [status |-> "absent"]

(***************************************************************************)
(* Template serial numbers                                                 *)
(***************************************************************************)
MaxUploads == 3

\* the subcategory field of an upload request as the client sends it
RawSubcategories == {"", " ", "default", "Birthday "}

\* String(x).toLowerCase().trim()
LowerTrim(raw) ==
    CASE raw = "" -> ""
      [] raw = " " -> ""
      [] raw = "default" -> "default"
      [] raw = "Birthday " -> "birthday"

\* the Counter document the pre-validate hook increments:
\* String(this.subcategory || this.category || 'default')
CounterKey(sub) == IF sub # "" THEN sub ELSE "default"

CounterKeys == {"default", "birthday"}

SerialInit ==
    /\ counters = [k \in CounterKeys |-> 0]
    /\ templates = {}
    /\ uploads = <<>>
    /\ batchResp = [op |-> "none", status |-> 0]

\* uploadAndSaveTemplate / VideoController.upload up to Template.create: an
\* absent subcategory is answered 400, otherwise the file goes to the CDN
uploadRequest(kind, raw) ==
    /\ UNCHANGED notSerialVars
    /\ Len(uploads) < MaxUploads
    /\ uploads' = Append(uploads,
          IF raw = ""
          THEN [kind |-> kind, sub |-> "", pc |-> "done", status |-> 400, serial |-> 0]
          ELSE [kind |-> kind, sub |-> LowerTrim(raw), pc |-> "create", status |-> 0,
                serial |-> 0])
    /\ UNCHANGED <<counters, templates, batchResp>>

\* Counter.findByIdAndUpdate(key, {$inc: {seq: 1}}, {new: true, upsert: true}):
\* one atomic document update returning the new value
IncSeq(c, key) == [c EXCEPT ![key] = c[key] + 1]

\* TemplateSchema.pre('validate'): runs before the schema's validators
preValidate(r) ==
    /\ UNCHANGED notSerialVars
    /\ r \in 1..Len(uploads)
    /\ uploads[r].pc = "create"
    /\ LET key == CounterKey(uploads[r].sub)
           c2 == IncSeq(counters, key) IN
       /\ counters' = c2
       /\ uploads' = [uploads EXCEPT ![r].pc = "validate", ![r].serial = c2[key]]
    /\ UNCHANGED <<templates, batchResp>>

\* the schema's validators (subcategory is required, and an empty string does
\* not satisfy required) and the insert; a validation error is answered 500
validateAndSave(r) ==
    /\ UNCHANGED notSerialVars
    /\ r \in 1..Len(uploads)
    /\ uploads[r].pc = "validate"
    /\ IF uploads[r].sub = ""
       THEN /\ uploads' = [uploads EXCEPT ![r].pc = "done", ![r].status = 500]
            /\ UNCHANGED templates
       ELSE /\ templates' = templates \cup
                   {[subcategory |-> uploads[r].sub, serial_no |-> uploads[r].serial]}
            /\ uploads' = [uploads EXCEPT ![r].pc = "done", ![r].status = 201]
    /\ UNCHANGED <<counters, batchResp>>

\* the serial numbers of the stored templates of a subcategory
SerialsOf(sub) == {t.serial_no : t \in {x \in templates : x.subcategory = sub}}

\* the creation requests of a subcategory answered 201
CreatedIn(sub) == {r \in 1..Len(uploads) : uploads[r].status = 201 /\ uploads[r].sub = sub}

(***************************************************************************)
(* The windowed batch fetch and template deletion                          *)
(***************************************************************************)
MaxSerial == 5

\* the query's subcategory, start_serial, limit and order as sent; 0 is a
\* value parseInt does not read as a positive number
BatchSubInputs == {"", "Birthday "}
StartInputs == {0, 2}
LimitInputs == {0, 1, 3}
OrderInputs == {"asc", "desc"}

\* Math.max(1, parseInt(startSerialRaw, 10) || 1)
ParseStartSerial(raw) == Max(1, IF raw = 0 THEN 1 ELSE raw)

\* Math.max(1, Math.min(100, parseInt(limitRaw, 10) || 5))
ParseLimit(raw) == Max(1, Min(100, IF raw = 0 THEN 5 ELSE raw))

\* .sort({serial_no: 1}) and .sort({serial_no: -1}) of a set of serials
RECURSIVE SortAsc(_)
SortAsc(S) ==
    IF S = {} THEN <<>>
    ELSE LET m == CHOOSE x \in S : \A y \in S : x <= y IN <<m>> \o SortAsc(S \ {m})

RECURSIVE SortDesc(_)
SortDesc(S) ==
    IF S = {} THEN <<>>
    ELSE LET m == CHOOSE x \in S : \A y \in S : x >= y IN <<m>> \o SortDesc(S \ {m})

\* .limit(k)
Take(docs, k) == SubSeq(docs, 1, Min(k, Len(docs)))

\* `.limit(limit * 3)`: the size of the over-fetched window
OverfetchShort(limit) == limit - 1
Overfetch(limit) == limit * 3

\* Template.find(filter).sort(sort).limit(limit * 3): the serials of the
\* subcategory in [startSerial, startSerial + limit + 1000), sorted, cut
FindDocs(sub, startSerial, limit, order) ==
    LET matching == {t.serial_no : t \in {x \in templates :
                        /\ x.subcategory = sub
                        /\ x.serial_no >= startSerial
                        /\ x.serial_no < startSerial + limit + 1000}} IN
    Take(IF order = "desc" THEN SortDesc(matching) ELSE SortAsc(matching),
         Overfetch(limit))

\* the loop over docs: keep a doc whose serial is in the wanted set, stop
\* once `limit` are kept
RECURSIVE Pick(_, _, _, _)
Pick(docs, wantedSet, limit, picked) ==
    IF docs = <<>> \/ Len(picked) >= limit THEN picked
    ELSE Pick(Tail(docs), wantedSet, limit,
              IF Head(docs) \in wantedSet THEN Append(picked, Head(docs)) ELSE picked)

\* GET /api/templates/batch; the response lists the serials of its items
\* and repeats the parsed query in meta
batchBySubcategory(subRaw, startSerialRaw, limitRaw, orderRaw) ==
    /\ UNCHANGED notSerialVars
    /\ UNCHANGED <<counters, templates, uploads>>
    /\ LET sub == LowerTrim(subRaw)
           startSerial == ParseStartSerial(startSerialRaw)
           limit == ParseLimit(limitRaw)
           order == IF orderRaw = "desc" THEN "desc" ELSE "asc" IN
       IF sub = ""
       THEN batchResp' = [op |-> "batch", status |-> 400]
       ELSE LET docs == FindDocs(sub, startSerial, limit, order)
                wantedSet == startSerial..(startSerial + limit - 1) IN
            batchResp' = [op |-> "batch", status |-> 200,
                          serials |-> Pick(docs, wantedSet, limit, <<>>),
                          subcategory |-> sub, start_serial |-> startSerial,
                          limit |-> limit, order |-> order]

\* DELETE /api/templates/:id
deleteTemplate(t) ==
    /\ UNCHANGED notSerialVars
    /\ UNCHANGED <<counters, uploads>>
    /\ IF t \notin templates
       THEN /\ batchResp' = [op |-> "delete", status |-> 404]
            /\ UNCHANGED templates
       ELSE /\ templates' = templates \ {t}
            /\ batchResp' = [op |-> "delete", status |-> 200]

\* a catalogue after MaxSerial creations in "birthday" and two in "default"
BatchCatalogue ==
    {[subcategory |-> "birthday", serial_no |-> k] : k \in 1..MaxSerial}
       \cup {[subcategory |-> "default", serial_no |-> k] : k \in 1..2}

(***************************************************************************)
(* Payments: orders, verify-payment, the gateway webhook                   *)
(***************************************************************************)
MaxOrders == 1

Orders == 1..MaxOrders
PayUsers == {1, 2}
PaymentIds == {1}

\* config.razorpay.keySecret and the value a configured webhookSecret has
KeySecret == 11
WebhookSecretValue == 23

\* crypto.createHmac('sha256', key).update(message).digest('hex'), as a small
\* keyed hash over numbered messages; 0 stands for an absent signature
Hmac(key, message) == ((key * 7 + message * 13 + 5) % 97) + 1

\* `${orderId}|${paymentId}`
OrderPaymentMessage(orderId, paymentId) == orderId * 10 + paymentId

\* the signatures a client may send for an order and a payment: none, the
\* right one, the right one with a character changed, one under another key
SignatureInputs(orderId, paymentId) ==
    LET good == Hmac(KeySecret, OrderPaymentMessage(orderId, paymentId)) IN
    {0, good, (good % 98) + 1,
     Hmac(WebhookSecretValue, OrderPaymentMessage(orderId, paymentId))}

PayInit ==
    /\ webhookSecret \in {0, WebhookSecretValue}
    /\ txStatus = [o \in Orders |-> "none"]
    /\ txOwner = [o \in Orders |-> 0]
    /\ subscription = [u \in PayUsers |-> [status |-> "none", lastTransactionId |-> 0]]
    /\ payResp = [op |-> "none", status |-> 0, success |-> FALSE]

\* createOrder: the gateway issues a fresh order id and a "pending"
\* Transaction mirrors it; a gateway failure is answered 500
createOrder(userId, gatewayOk) ==
    /\ UNCHANGED notPayVars
    /\ \E o \in Orders : txStatus[o] = "none"
    /\ LET o == CHOOSE x \in Orders :
                    txStatus[x] = "none" /\ \A y \in Orders : txStatus[y] = "none" => x <= y IN
       IF userId = 0
       THEN /\ payResp' = [op |-> "create-order", status |-> 401, success |-> FALSE]
            /\ UNCHANGED <<txStatus, txOwner>>
       ELSE IF ~gatewayOk
       THEN /\ payResp' = [op |-> "create-order", status |-> 500, success |-> FALSE]
            /\ UNCHANGED <<txStatus, txOwner>>
       ELSE /\ txStatus' = [txStatus EXCEPT ![o] = "pending"]
            /\ txOwner' = [txOwner EXCEPT ![o] = userId]
            /\ payResp' = [op |-> "create-order", status |-> 200, success |-> TRUE]
    /\ UNCHANGED <<webhookSecret, subscription>>

\* RazorpayService.verifyPaymentSignature
verifyPaymentSignature(orderId, paymentId, signature) ==
    Hmac(KeySecret, OrderPaymentMessage(orderId, paymentId)) = signature

\* verifyPayment: 401 without a user, 400 on a missing parameter, 400 and
\* "failed" on a signature mismatch, else the gateway fetch, "paid" and the
\* subscription; updateTransaction throws when the order has no Transaction
\* and every throw is answered 500
verifyPayment(userId, orderId, paymentId, signature, gatewayOk) ==
    /\ UNCHANGED notPayVars
    /\ UNCHANGED <<webhookSecret, txOwner>>
    /\ IF userId = 0
       THEN /\ payResp' = [op |-> "verify-payment", status |-> 401, success |-> FALSE]
            /\ UNCHANGED <<txStatus, subscription>>
       ELSE IF signature = 0
       THEN /\ payResp' = [op |-> "verify-payment", status |-> 400, success |-> FALSE]
            /\ UNCHANGED <<txStatus, subscription>>
       ELSE IF ~verifyPaymentSignature(orderId, paymentId, signature)
       THEN IF txStatus[orderId] = "none"
            THEN /\ payResp' = [op |-> "verify-payment", status |-> 500, success |-> FALSE]
                 /\ UNCHANGED <<txStatus, subscription>>
            ELSE /\ txStatus' = [txStatus EXCEPT ![orderId] = "failed"]
                 /\ payResp' = [op |-> "verify-payment", status |-> 400, success |-> FALSE]
                 /\ UNCHANGED subscription
       ELSE IF ~gatewayOk \/ txStatus[orderId] = "none"
       THEN /\ payResp' = [op |-> "verify-payment", status |-> 500, success |-> FALSE]
            /\ UNCHANGED <<txStatus, subscription>>
       ELSE /\ txStatus' = [txStatus EXCEPT ![orderId] = "paid"]
            /\ subscription' = [subscription EXCEPT ![userId] =
                                   [status |-> "active", lastTransactionId |-> orderId]]
            /\ payResp' = [op |-> "verify-payment", status |-> 200, success |-> TRUE]

\* the webhook events the handler distinguishes, and one it ignores
WebhookEvents == {"payment.captured", "order.paid", "payment.failed", "refund.created"}

\* JSON.stringify(req.body), numbered per event and order
WebhookBody(event, orderId) ==
    100 + orderId * 10 +
    (CASE event = "payment.captured" -> 1
       [] event = "order.paid" -> 2
       [] event = "payment.failed" -> 3
       [] event = "refund.created" -> 4)

\* the X-Razorpay-Signature values a sender may put on a body
WebhookSignatureInputs(body) ==
    {0, Hmac(WebhookSecretValue, body), (Hmac(WebhookSecretValue, body) % 98) + 1}

\* RazorpayService.verifyWebhookSignature: skipped when no secret is set
verifyWebhookSignature(body, signature) ==
    IF webhookSecret = 0 THEN TRUE ELSE Hmac(webhookSecret, body) = signature

\* the catch block of handleWebhook: "Still return 200"
WebhookCatch500(op) == [op |-> op, status |-> 500, success |-> FALSE]
WebhookCatch(op) == [op |-> op, status |-> 200, success |-> FALSE]

\* handleWebhook; orderId 0 stands for a payload without an order id, and
\* dbOk = FALSE for a database call that throws
handleWebhook(signature, event, orderId, dbOk) ==
    /\ UNCHANGED notPayVars
    /\ UNCHANGED <<webhookSecret, txOwner, subscription>>
    /\ IF ~verifyWebhookSignature(WebhookBody(event, orderId), signature)
       THEN /\ payResp' = [op |-> "webhook", status |-> 400, success |-> FALSE]
            /\ UNCHANGED txStatus
       ELSE CASE event \in {"payment.captured", "order.paid"} /\ orderId # 0 ->
                   IF ~dbOk
                   THEN /\ payResp' = WebhookCatch("webhook")
                        /\ UNCHANGED txStatus
                   ELSE /\ payResp' = [op |-> "webhook", status |-> 200, success |-> TRUE]
                        /\ IF txStatus[orderId] = "pending"
                           THEN txStatus' = [txStatus EXCEPT ![orderId] = "paid"]
                           ELSE UNCHANGED txStatus
              [] event = "payment.failed" /\ orderId # 0 ->
                   IF ~dbOk \/ txStatus[orderId] = "none"
                   THEN /\ payResp' = WebhookCatch("webhook")
                        /\ UNCHANGED txStatus
                   ELSE /\ payResp' = [op |-> "webhook", status |-> 200, success |-> TRUE]
                        /\ txStatus' = [txStatus EXCEPT ![orderId] = "failed"]
              [] OTHER ->
                   /\ payResp' = [op |-> "webhook", status |-> 200, success |-> TRUE]
                   /\ UNCHANGED txStatus

(***************************************************************************)
(* Users and OTP sign-in                                                   *)
(***************************************************************************)
MaxNow == 12

\* `10 * 60 * 1000` ms, in minutes
OtpTtl == 10

Phones == {1, 2}

\* the phone field of a request: 0 does not normalize to an Indian number
OtpPhoneInputs == {0, 1}

\* the codes the OTP service can draw, and what a client can type: the two
\* codes, and 0 for a value that is not six characters long
Codes == {1, 2}
OtpInputs == {0, 1, 2}

\* the name field: too short, fine, longer than the schema's maxlength
NameInputs == {"A", "Al", "long81"}

\* normalizeIndianPhone: a phone of the model, or 0 for null
normalizeIndianPhone(phone) == IF phone \in Phones THEN phone ELSE 0

\* bcrypt.hash(code, 10) and bcrypt.compare(code, hash); 0 is no hash
BcryptHash(code) == code * 17 + 3
BcryptCompare(code, hash) == hash = BcryptHash(code)

NoUser == [exists |-> FALSE, name |-> "", hasPassword |-> FALSE,
           isPhoneVerified |-> FALSE, otp |-> 0,
           otpExpiry |-> 0, accountStatus |-> "active", deletionScheduledAt |-> 0]

UsersInit ==
    /\ now = 0
    /\ users = [p \in Phones |-> NoUser]
    /\ authResp = [op |-> "none", status |-> 0, error |-> "none"]

AuthResponse(op, status, error) == [op |-> op, status |-> status, error |-> error]

\* the clock moves on to a later reading
Tick(t) ==
    /\ t > now
    /\ now' = t
    /\ UNCHANGED <<users, authResp>>
    /\ UNCHANGED notUserVars

\* `new Date(Date.now() + 10 * 60 * 1000)`
OtpExpiryAt(t) == t + OtpTtl

\* `new Date() > user.otpExpiry`
OtpExpiredAtOrAfter(t, expiry) == expiry # 0 /\ t >= expiry
OtpExpired(t, expiry) == expiry # 0 /\ t > expiry

\* sendOtp: mode checks, the gateway call, then the hash and its expiry go
\* on the existing user or on a new placeholder user
sendOtp(phone, mode, code, gatewayOk) ==
    /\ UNCHANGED notUserVars
    /\ UNCHANGED now
    /\ LET phoneNorm == normalizeIndianPhone(phone) IN
       IF phoneNorm = 0
       THEN /\ authResp' = AuthResponse("send-otp", 400, "validation")
            /\ UNCHANGED users
       ELSE LET existingUser == users[phoneNorm] IN
       IF mode = "register" /\ existingUser.exists /\ existingUser.isPhoneVerified
       THEN /\ authResp' = AuthResponse("send-otp", 409, "conflict")
            /\ UNCHANGED users
       ELSE IF mode = "signin" /\ ~existingUser.exists
       THEN /\ authResp' = AuthResponse("send-otp", 404, "not-found")
            /\ UNCHANGED users
       ELSE IF mode = "signin" /\ ~existingUser.isPhoneVerified
       THEN /\ authResp' = AuthResponse("send-otp", 400, "not-verified")
            /\ UNCHANGED users
       ELSE IF ~gatewayOk
       THEN /\ authResp' = AuthResponse("send-otp", 500, "gateway")
            /\ UNCHANGED users
       ELSE /\ authResp' = AuthResponse("send-otp", 200, "none")
            /\ users' = [users EXCEPT ![phoneNorm] =
                  IF existingUser.exists
                  THEN [existingUser EXCEPT !.otp = BcryptHash(code),
                                            !.otpExpiry = OtpExpiryAt(now)]
                  ELSE [NoUser EXCEPT !.exists = TRUE, !.name = "Temporary",
                                      !.otp = BcryptHash(code),
                                      !.otpExpiry = OtpExpiryAt(now)]]

\* resendOtp: a new code for an existing, not yet verified phone
resendOtp(phone, code, gatewayOk) ==
    /\ UNCHANGED notUserVars
    /\ UNCHANGED now
    /\ LET phoneNorm == normalizeIndianPhone(phone) IN
       IF phoneNorm = 0
       THEN /\ authResp' = AuthResponse("resend-otp", 400, "validation")
            /\ UNCHANGED users
       ELSE IF ~users[phoneNorm].exists
       THEN /\ authResp' = AuthResponse("resend-otp", 404, "not-found")
            /\ UNCHANGED users
       ELSE IF users[phoneNorm].isPhoneVerified
       THEN /\ authResp' = AuthResponse("resend-otp", 400, "already-verified")
            /\ UNCHANGED users
       ELSE IF ~gatewayOk
       THEN /\ authResp' = AuthResponse("resend-otp", 500, "gateway")
            /\ UNCHANGED users
       ELSE /\ authResp' = AuthResponse("resend-otp", 200, "none")
            /\ users' = [users EXCEPT ![phoneNorm].otp = BcryptHash(code),
                                      ![phoneNorm].otpExpiry = OtpExpiryAt(now)]

\* the checks verifyOtp and checkOtp share, after the name check: the
\* response that ends the request, or status 0 when the code verifies
OtpChecks(op, phone, otp) ==
    LET phoneNorm == normalizeIndianPhone(phone) IN
    IF phoneNorm = 0 THEN AuthResponse(op, 400, "validation")
    ELSE IF otp = 0 THEN AuthResponse(op, 400, "validation")
    ELSE IF ~users[phoneNorm].exists \/ users[phoneNorm].otp = 0
    THEN AuthResponse(op, 404, "no-otp")
    ELSE IF OtpExpired(now, users[phoneNorm].otpExpiry)
    THEN AuthResponse(op, 400, "expired")
    ELSE IF ~BcryptCompare(otp, users[phoneNorm].otp)
    THEN AuthResponse(op, 401, "invalid-otp")
    ELSE AuthResponse(op, 0, "none")

\* what a failed verify-otp writes to the user: nothing
FailedVerifyClearsOtp(u) == [u EXCEPT !.otp = 0, !.otpExpiry = 0]
FailedVerifyUpdate(u) == u

\* verifyOtp: on success the name is set, the phone verified, the OTP fields
\* cleared; a name over the schema's maxlength makes user.save() throw
verifyOtp(phone, otp, name) ==
    /\ UNCHANGED notUserVars
    /\ UNCHANGED now
    /\ IF name = "A"
       THEN /\ authResp' = AuthResponse("verify-otp", 400, "validation")
            /\ UNCHANGED users
       ELSE LET r == OtpChecks("verify-otp", phone, otp) IN
            IF r.status # 0
            THEN /\ authResp' = r
                 /\ users' = IF r.error = "invalid-otp"
                             THEN [users EXCEPT ![normalizeIndianPhone(phone)] =
                                      FailedVerifyUpdate(users[normalizeIndianPhone(phone)])]
                             ELSE users
            ELSE IF name = "long81"
            THEN /\ authResp' = AuthResponse("verify-otp", 500, "server")
                 /\ UNCHANGED users
            ELSE /\ authResp' = AuthResponse("verify-otp", 200, "none")
                 /\ users' = [users EXCEPT ![phone].name = name,
                                           ![phone].isPhoneVerified = TRUE,
                                           ![phone].otp = 0,
                                           ![phone].otpExpiry = 0]

\* checkOtp: the same checks, the user is not written
checkOtp(phone, otp) ==
    /\ UNCHANGED notUserVars
    /\ UNCHANGED <<now, users>>
    /\ LET r == OtpChecks("check-otp", phone, otp) IN
       authResp' = IF r.status # 0 THEN r ELSE AuthResponse("check-otp", 200, "none")

\* login by phone and password: the token is issued when the password
\* matches; bcrypt.compare throws for a user that has no passwordHash (one
\* created by sendOtp) and the catch answers 500.  The user is not written.
login(phone, passwordRight) ==
    /\ UNCHANGED notUserVars
    /\ UNCHANGED <<now, users>>
    /\ LET phoneNorm == normalizeIndianPhone(phone) IN
       authResp' =
          IF phoneNorm = 0 THEN AuthResponse("login", 400, "validation")
          ELSE IF ~users[phoneNorm].exists THEN AuthResponse("login", 401, "credentials")
          ELSE IF ~users[phoneNorm].hasPassword THEN AuthResponse("login", 500, "server")
          ELSE IF ~passwordRight THEN AuthResponse("login", 401, "credentials")
          ELSE AuthResponse("login", 200, "none")

(***************************************************************************)
(* Account deletion: requests, the schedule-deletion endpoint, the cron    *)
(***************************************************************************)
MaxRequests == 2

\* `15 * 24 * 60 * 60 * 1000` ms, in minutes
GracePeriod == 15 * 24 * 60

\* the clock readings of the deletion runs: two instants at which a deletion
\* can be scheduled, 14 days 23 hours after the first, the end of the first
\* grace period exactly, and 15 days and 1 minute after the second
DelClock == {0, 7, GracePeriod - 60, GracePeriod, 7 + GracePeriod + 1}

DelInit ==
    /\ delReqs = <<>>
    /\ delResp = [op |-> "none", status |-> 0]

\* the user `register` creates for a phone: active, no deletion scheduled
RegisteredUser == [NoUser EXCEPT !.exists = TRUE, !.name = "Al", !.hasPassword = TRUE]

\* POST /account-delete-request once the OTP has verified: the account must
\* exist and not be deleted, then a "pending" DeletionRequest is saved
submitDeletionRequest(phone) ==
    /\ UNCHANGED notUserDelVars
    /\ Len(delReqs) < MaxRequests
    /\ phone \in Phones
    /\ IF ~users[phone].exists
       THEN /\ delResp' = [op |-> "submit", status |-> 404]
            /\ UNCHANGED delReqs
       ELSE IF users[phone].accountStatus = "deleted"
       THEN /\ delResp' = [op |-> "submit", status |-> 403]
            /\ UNCHANGED delReqs
       ELSE /\ delReqs' = Append(delReqs, [phone |-> phone, status |-> "pending",
                                            processed |-> FALSE])
            /\ delResp' = [op |-> "submit", status |-> 201]
    /\ UNCHANGED <<now, users, authResp>>

\* PATCH /api/deletion-requests/:id: an administrator sets the status
updateDeletionRequest(id, status) ==
    /\ UNCHANGED notUserDelVars
    /\ status \in {"pending", "processing", "completed"}
    /\ IF id \notin 1..Len(delReqs)
       THEN /\ delResp' = [op |-> "update", status |-> 404]
            /\ UNCHANGED delReqs
       ELSE /\ delReqs' = [delReqs EXCEPT ![id].status = status,
                              ![id].processed = (delReqs[id].processed \/ status = "completed")]
            /\ delResp' = [op |-> "update", status |-> 200]
    /\ UNCHANGED <<now, users, authResp>>

\* `new Date(Date.now() + 15 * 24 * 60 * 60 * 1000)`
ScheduledAtHours(t) == t + 15 * 60
ScheduledAt(t) == t + GracePeriod

\* the two early returns of the schedule-deletion route: already deleted,
\* already pending
AlreadyDeletedOnly(user) == user.accountStatus = "deleted"
AlreadyPendingOnly(user) == user.accountStatus = "pending"
AlreadyScheduled(user) == user.accountStatus \in {"deleted", "pending"}

\* PATCH /api/deletion-requests/:id/delete-account
scheduleDeletion(id) ==
    /\ UNCHANGED notUserDelVars
    /\ IF id \notin 1..Len(delReqs)
       THEN /\ delResp' = [op |-> "schedule", status |-> 404]
            /\ UNCHANGED <<users, delReqs>>
       ELSE LET phone == delReqs[id].phone
                user == users[phone] IN
       IF ~user.exists
       THEN /\ delResp' = [op |-> "schedule", status |-> 404]
            /\ UNCHANGED <<users, delReqs>>
       ELSE IF AlreadyScheduled(user)
       THEN /\ delResp' = [op |-> "schedule", status |-> 200]
            /\ UNCHANGED <<users, delReqs>>
       ELSE /\ users' = [users EXCEPT ![phone].accountStatus = "pending",
                                      ![phone].deletionScheduledAt = ScheduledAt(now)]
            /\ delReqs' = [delReqs EXCEPT ![id].status = "processing"]
            /\ delResp' = [op |-> "schedule", status |-> 200]
    /\ UNCHANGED <<now, authResp>>

\* the users the cron's query selects
usersToDeleteStrict ==
    {p \in Phones : /\ users[p].exists
                    /\ users[p].accountStatus = "pending"
                    /\ users[p].deletionScheduledAt < now}
usersToDelete ==
    {p \in Phones : /\ users[p].exists
                    /\ users[p].accountStatus = "pending"
                    /\ users[p].deletionScheduledAt <= now}

\* one run of the account-deletion cron.  findOk = FALSE: User.find throws
\* and the outer catch logs it; saveFails: the users whose user.save()
\* throws, updateFails: the users whose DeletionRequest.updateMany throws;
\* the inner catch logs each and the loop goes on.  delResp.status counts
\* the errors logged.  Only a user the loop reaches can fail.
accountDeletionJob(findOk, saveFails, updateFails) ==
    /\ saveFails \subseteq (IF findOk THEN usersToDelete ELSE {})
    /\ updateFails \subseteq (IF findOk THEN usersToDelete \ saveFails ELSE {})
    /\ UNCHANGED notUserDelVars
    /\ LET due == IF findOk THEN usersToDelete ELSE {}
           saved == due \ saveFails
           updated == saved \ updateFails IN
       /\ users' = [p \in Phones |->
                       IF p \in saved
                       THEN [users[p] EXCEPT !.accountStatus = "deleted",
                                             !.deletionScheduledAt = 0]
                       ELSE users[p]]
       /\ delReqs' = [i \in 1..Len(delReqs) |->
                       IF delReqs[i].phone \in updated /\ delReqs[i].status = "processing"
                       THEN [delReqs[i] EXCEPT !.status = "completed", !.processed = TRUE]
                       ELSE delReqs[i]]
       /\ delResp' = [op |-> "cron",
                      status |-> IF findOk THEN Cardinality(due \ updated) ELSE 1]
    /\ UNCHANGED <<now, authResp>>

(***************************************************************************)
(* The deletion routes' OTP store                                          *)
(***************************************************************************)
\* the clock readings of the OTP runs: a send, a second send 7 minutes
\* later, the first timer's moment, and instants before and at the second
\* entry's expiry
OtpClock == {0, 7, 10, 12, 17}

\* `const otpStore = new Map()`
NoOtp == [otpHash |-> 0, otpExpiry |-> 0]

DelOtpInit ==
    /\ otpStore = [p \in Phones |-> NoOtp]
    /\ otpTimers = {}

\* the clock moves on; a timer fires at its time, so the clock does not move
\* past a pending timer
TickTimers(t) ==
    /\ t > now
    /\ \A timer \in otpTimers : timer.fireAt >= t
    /\ now' = t
    /\ UNCHANGED <<users, authResp, delVars, delOtpVars>>
    /\ UNCHANGED notDelOtpVars

\* POST /account-delete-request/send-otp
sendDeletionOtp(phone, code, gatewayOk) ==
    /\ UNCHANGED notDelOtpVars
    /\ UNCHANGED <<now, users, authResp, delReqs>>
    /\ LET phoneNorm == normalizeIndianPhone(phone) IN
       IF phoneNorm = 0
       THEN /\ delResp' = [op |-> "send-otp", status |-> 400]
            /\ UNCHANGED delOtpVars
       ELSE IF ~users[phoneNorm].exists
       THEN /\ delResp' = [op |-> "send-otp", status |-> 404]
            /\ UNCHANGED delOtpVars
       ELSE IF users[phoneNorm].accountStatus = "deleted"
       THEN /\ delResp' = [op |-> "send-otp", status |-> 403]
            /\ UNCHANGED delOtpVars
       ELSE IF ~gatewayOk
       THEN /\ delResp' = [op |-> "send-otp", status |-> 500]
            /\ UNCHANGED delOtpVars
       ELSE /\ otpStore' = [otpStore EXCEPT ![phoneNorm] =
                               [otpHash |-> BcryptHash(code), otpExpiry |-> OtpExpiryAt(now)]]
            /\ otpTimers' = otpTimers \cup {[phone |-> phoneNorm, fireAt |-> now + OtpTtl]}
            /\ delResp' = [op |-> "send-otp", status |-> 200]

\* what a timer's callback removes: `otpStore.delete(phoneNorm)`, whatever
\* entry the phone holds by then
DeleteEntry(store, timer) == [store EXCEPT ![timer.phone] = NoOtp]

\* the callbacks send-otp can have armed
TimerInputs == [phone : Phones, fireAt : {t + OtpTtl : t \in OtpClock}]

\* a setTimeout callback of send-otp runs
otpTimerFires(timer) ==
    /\ UNCHANGED notDelOtpVars
    /\ UNCHANGED <<now, users, authResp, delVars>>
    /\ timer \in otpTimers
    /\ timer.fireAt <= now
    /\ otpStore' = DeleteEntry(otpStore, timer)
    /\ otpTimers' = otpTimers \ {timer}

\* POST /account-delete-request with its OTP checks
submitWithOtp(phone, otp) ==
    /\ UNCHANGED notDelOtpVars
    /\ UNCHANGED <<now, users, authResp, otpTimers>>
    /\ Len(delReqs) < MaxRequests
    /\ LET phoneNorm == normalizeIndianPhone(phone) IN
       IF otp = 0 \/ phoneNorm = 0
       THEN /\ delResp' = [op |-> "submit", status |-> 400]
            /\ UNCHANGED <<otpStore, delReqs>>
       ELSE IF otpStore[phoneNorm] = NoOtp
       THEN /\ delResp' = [op |-> "submit", status |-> 404]
            /\ UNCHANGED <<otpStore, delReqs>>
       ELSE IF now > otpStore[phoneNorm].otpExpiry
       THEN /\ otpStore' = [otpStore EXCEPT ![phoneNorm] = NoOtp]
            /\ delResp' = [op |-> "submit", status |-> 400]
            /\ UNCHANGED delReqs
       ELSE IF ~BcryptCompare(otp, otpStore[phoneNorm].otpHash)
       THEN /\ delResp' = [op |-> "submit", status |-> 401]
            /\ UNCHANGED <<otpStore, delReqs>>
       ELSE /\ otpStore' = [otpStore EXCEPT ![phoneNorm] = NoOtp]
            /\ IF ~users[phoneNorm].exists
               THEN /\ delResp' = [op |-> "submit", status |-> 404]
                    /\ UNCHANGED delReqs
               ELSE IF users[phoneNorm].accountStatus = "deleted"
               THEN /\ delResp' = [op |-> "submit", status |-> 403]
                    /\ UNCHANGED delReqs
               ELSE /\ delReqs' = Append(delReqs, [phone |-> phoneNorm, status |-> "pending",
                                                    processed |-> FALSE])
                    /\ delResp' = [op |-> "submit", status |-> 201]

(***************************************************************************)
(* The CDN-search category listing                                         *)
(***************************************************************************)
MaxCount == 2

\* searchStrategies: 1 folder path, 2 public-id prefix, 3 tag, 4 context field
searchStrategies == <<"folder", "public_id", "tags", "context">>

\* what one search can do: throw (-1) or answer with a total_count
SearchOutcomes == -1..MaxCount

CdnInit ==
    /\ searchResults = [i \in 1..Len(searchStrategies) |-> 0]
    /\ listResp = [op |-> "none", status |-> 0]

\* the CDN's index changes, or the search of one kind starts or stops failing
cdnChanges(i, outcome) ==
    /\ UNCHANGED notCdnVars
    /\ i \in 1..Len(searchStrategies)
    /\ searchResults[i] # outcome
    /\ searchResults' = [searchResults EXCEPT ![i] = outcome]
    /\ UNCHANGED listResp

\* `let result;` before the loop
NoResult == [strategy |-> "none", total_count |-> -1]

\* what the loop does after a search that threw: `continue`
AbortListing(i, result) == NoResult
RECURSIVE SearchFrom(_, _)
AfterThrow(i, result) == SearchFrom(i + 1, result)

\* the loop over searchStrategies from index i on, `result` being the last
\* answer received: a search that throws is skipped, a positive total_count
\* ends the loop
SearchFrom(i, result) ==
    IF i > Len(searchStrategies) THEN result
    ELSE IF searchResults[i] = -1 THEN AfterThrow(i, result)
    ELSE LET answer == [strategy |-> searchStrategies[i],
                        total_count |-> searchResults[i]] IN
         IF answer.total_count > 0 THEN answer ELSE SearchFrom(i + 1, answer)

\* getTemplatesByCategory: the result of the loop, or the empty result when
\* no search answered
getTemplatesByCategory ==
    /\ UNCHANGED notCdnVars
    /\ UNCHANGED searchResults
    /\ LET result == SearchFrom(1, NoResult) IN
       listResp' = IF result = NoResult
                   THEN [op |-> "list", status |-> 200, strategy |-> "none",
                         total_count |-> 0]
                   ELSE [op |-> "list", status |-> 200, strategy |-> result.strategy,
                         total_count |-> result.total_count]

(***************************************************************************)
(* Overlapping OTP send requests                                           *)
(***************************************************************************)
\* the number of OTP send requests in one run
MaxSends == 2

\* the two send-otp handlers: auth-controller.js sendOtp and the deletion
\* routes' /account-delete-request/send-otp
SendRoutes == {"auth", "delete"}

SendInit == sendReqs = <<>>

SendDone(r, status) == [r EXCEPT !.pc = "done", !.status = status]

\* the handler runs up to `await otpService.sendOTP(phoneNorm)`: validation
\* and the user lookup, whose result the rest of the handler keeps
otpSendBegins(route, phone, mode) ==
    /\ UNCHANGED notSendVars
    /\ Len(sendReqs) < MaxSends
    /\ LET phoneNorm == normalizeIndianPhone(phone)
           r == [route |-> route, phone |-> phoneNorm, mode |-> mode, pc |-> "gateway",
                 existed |-> FALSE, otp |-> 0, otpExpiry |-> 0, sent |-> 0, status |-> 0]
       IN  sendReqs' = Append(sendReqs,
             IF phoneNorm = 0 THEN SendDone(r, 400)
             ELSE LET existingUser == users[phoneNorm] IN
                  IF route = "auth"
                  THEN IF mode = "register" /\ existingUser.exists /\ existingUser.isPhoneVerified
                       THEN SendDone(r, 409)
                       ELSE IF mode = "signin" /\ ~existingUser.exists
                       THEN SendDone(r, 404)
                       ELSE IF mode = "signin" /\ ~existingUser.isPhoneVerified
                       THEN SendDone(r, 400)
                       ELSE [r EXCEPT !.existed = existingUser.exists]
                  ELSE IF ~existingUser.exists THEN SendDone(r, 404)
                       ELSE IF existingUser.accountStatus = "deleted" THEN SendDone(r, 403)
                       ELSE [r EXCEPT !.existed = TRUE])

\* how many codes the gateway has sent so far
SentSoFar == Cardinality({i \in 1..Len(sendReqs) : sendReqs[i].sent > 0})

\* the gateway call returns: the code has been sent, and the handler computes
\* otpExpiry and starts hashing
otpGatewayReturns(i, code, gatewayOk) ==
    /\ UNCHANGED notSendVars
    /\ i \in 1..Len(sendReqs)
    /\ sendReqs[i].pc = "gateway"
    /\ sendReqs' = [sendReqs EXCEPT ![i] =
          IF ~gatewayOk THEN SendDone(@, 500)
          ELSE [@ EXCEPT !.pc = "hash", !.otp = code, !.otpExpiry = OtpExpiryAt(now),
                         !.sent = SentSoFar + 1]]

\* bcrypt.hash resolves and the handler stores the hash: otpStore.set and the
\* timer in the deletion routes, existingUser.save() or User.create() in the
\* auth controller (the unique phone index rejects a second create)
otpHashStored(i) ==
    /\ UNCHANGED notSendStoreVars
    /\ UNCHANGED <<now, authResp>>
    /\ i \in 1..Len(sendReqs)
    /\ sendReqs[i].pc = "hash"
    /\ LET r == sendReqs[i] IN
       IF r.route = "delete"
       THEN /\ otpStore' = [otpStore EXCEPT ![r.phone] =
                               [otpHash |-> BcryptHash(r.otp), otpExpiry |-> r.otpExpiry]]
            /\ otpTimers' = otpTimers \cup {[phone |-> r.phone, fireAt |-> now + OtpTtl]}
            /\ sendReqs' = [sendReqs EXCEPT ![i] = SendDone(@, 200)]
            /\ UNCHANGED users
       ELSE IF r.existed
       THEN /\ users' = [users EXCEPT ![r.phone].otp = BcryptHash(r.otp),
                                      ![r.phone].otpExpiry = r.otpExpiry]
            /\ sendReqs' = [sendReqs EXCEPT ![i] = SendDone(@, 200)]
            /\ UNCHANGED delOtpVars
       ELSE IF users[r.phone].exists
       THEN /\ sendReqs' = [sendReqs EXCEPT ![i] = SendDone(@, 500)]
            /\ UNCHANGED <<users, delOtpVars>>
       ELSE /\ users' = [users EXCEPT ![r.phone] =
                           [NoUser EXCEPT !.exists = TRUE, !.name = "Temporary",
                                          !.otp = BcryptHash(r.otp),
                                          !.otpExpiry = r.otpExpiry]]
            /\ sendReqs' = [sendReqs EXCEPT ![i] = SendDone(@, 200)]
            /\ UNCHANGED delOtpVars

\* the hash a submission for the phone is compared with
StoredOtpHash(route, phone) ==
    IF route = "delete" THEN otpStore[phone].otpHash ELSE users[phone].otp

(***************************************************************************)
(* Concurrent deletion-request submissions                                 *)
(***************************************************************************)
\* the number of submissions in one run
MaxSubmits == 2

SubmitInit == subReqs = <<>>

\* the clock readings of the submission runs: a send, its entry's last
\* valid minute, and a reading past it
SubmitClock == {0, 10, 12}

SubmitDone(r, status) == [r EXCEPT !.pc = "done", !.status = status]

\* `bcrypt.compare(String(otp), otpData.otpHash)`
AcceptAnyOtp(otp, hash) == otp # 0
SubmitOtpValid(otp, hash) == BcryptCompare(otp, hash)

\* the handler runs up to `await bcrypt.compare(...)`: validation, the read of
\* the OTP store and the expiry check
submitBegins(phone, otp) ==
    /\ UNCHANGED notSubmitStoreVars
    /\ UNCHANGED <<userVars, delVars, otpTimers>>
    /\ Len(subReqs) < MaxSubmits
    /\ LET phoneNorm == normalizeIndianPhone(phone)
           otpData == IF phoneNorm = 0 THEN NoOtp ELSE otpStore[phoneNorm]
           r == [phone |-> phoneNorm, otp |-> otp, pc |-> "compare", otpData |-> otpData,
                 readAt |-> now, user |-> NoUser, status |-> 0]
       IN  IF otp = 0 \/ phoneNorm = 0
           THEN /\ subReqs' = Append(subReqs, SubmitDone(r, 400))
                /\ UNCHANGED otpStore
           ELSE IF otpData = NoOtp
           THEN /\ subReqs' = Append(subReqs, SubmitDone(r, 404))
                /\ UNCHANGED otpStore
           ELSE IF now > otpData.otpExpiry
           THEN /\ otpStore' = [otpStore EXCEPT ![phoneNorm] = NoOtp]
                /\ subReqs' = Append(subReqs, SubmitDone(r, 400))
           ELSE /\ subReqs' = Append(subReqs, r)
                /\ UNCHANGED otpStore

\* bcrypt.compare resolves: 401, or the entry is cleared from the store and
\* the handler looks the user up
submitCompared(i) ==
    /\ UNCHANGED notSubmitStoreVars
    /\ UNCHANGED <<userVars, delVars, otpTimers>>
    /\ i \in 1..Len(subReqs)
    /\ subReqs[i].pc = "compare"
    /\ LET r == subReqs[i] IN
       IF ~SubmitOtpValid(r.otp, r.otpData.otpHash)
       THEN /\ subReqs' = [subReqs EXCEPT ![i] = SubmitDone(@, 401)]
            /\ UNCHANGED otpStore
       ELSE /\ otpStore' = [otpStore EXCEPT ![r.phone] = NoOtp]
            /\ subReqs' = [subReqs EXCEPT ![i].pc = "findUser"]

\* `User.findOne({ phone: phoneNorm })` resolves
submitUserFound(i) ==
    /\ UNCHANGED notSubmitStoreVars
    /\ UNCHANGED <<userVars, delVars, delOtpVars>>
    /\ i \in 1..Len(subReqs)
    /\ subReqs[i].pc = "findUser"
    /\ LET user == users[subReqs[i].phone] IN
       subReqs' = [subReqs EXCEPT ![i] =
          IF ~user.exists THEN SubmitDone(@, 404)
          ELSE IF user.accountStatus = "deleted" THEN SubmitDone(@, 403)
          ELSE [@ EXCEPT !.pc = "save", !.user = user]]

\* the tracking token is generated and `deletionRequest.save()` resolves
submitSaved(i) ==
    /\ UNCHANGED notSubmitStoreVars
    /\ UNCHANGED <<userVars, delOtpVars, delResp>>
    /\ i \in 1..Len(subReqs)
    /\ subReqs[i].pc = "save"
    /\ delReqs' = Append(delReqs, [phone |-> subReqs[i].phone, status |-> "pending",
                                   processed |-> FALSE])
    /\ subReqs' = [subReqs EXCEPT ![i] = SubmitDone(@, 201)]

\* the submissions that persisted a DeletionRequest for the phone
Persisted(phone) == {i \in 1..Len(subReqs) : subReqs[i].status = 201 /\ subReqs[i].phone = phone}

\* the OTPs the deletion send-otp route has stored for the phone
StoredOtps(phone) ==
    {i \in 1..Len(sendReqs) : /\ sendReqs[i].route = "delete" /\ sendReqs[i].phone = phone
                              /\ sendReqs[i].status = 200}

(***************************************************************************)
(* Disk-staged uploads and the cleanup sweep                               *)
(***************************************************************************)
\* the number of disk-staged upload requests in one run
MaxStaged == 2

\* config.cleanup.maxFileAgeMinutes in production
MaxFileAge == 5

\* the clock readings of the upload runs: a file staged at 0 is exactly as
\* old as the max age at 5 and older at 6
StageClock == {0, 5, 6}

StageInit ==
    /\ stagedReqs = <<>>
    /\ disk = {}

\* the files request i has on disk
FilesOf(i) == {f \in disk : f.req = i}
HasFile(i, name) == \E f \in disk : f.req = i /\ f.name = name

\* fs.unlinkSync(path) inside try/catch: a missing file is ignored
Unlink(d, i, name) == {f \in d : ~(f.req = i /\ f.name = name)}

StageDone(r, status) == [r EXCEPT !.pc = "done", !.status = status]

\* multer stages the file (when the request carries one) and the handler runs
\* to its first await: the validations, then the crop or the CDN upload
stageUpload(kind, raw, hasFileInput, hasCrop) ==
    /\ UNCHANGED notStageStoreVars
    /\ UNCHANGED <<serialVars, userVars>>
    /\ Len(stagedReqs) < MaxStaged
    /\ LET i == Len(stagedReqs) + 1
           r == [kind |-> kind, sub |-> LowerTrim(raw), filePathToUpload |-> "staged",
                 pc |-> "upload", status |-> 0]
       IN  /\ disk' = IF hasFileInput
                      THEN disk \cup {[req |-> i, name |-> "staged", mtime |-> now]}
                      ELSE disk
           /\ stagedReqs' = Append(stagedReqs,
                 IF raw = "" THEN StageDone(r, 400)
                 ELSE IF ~hasFileInput THEN StageDone(r, 400)
                 ELSE IF kind = "image" /\ hasCrop THEN [r EXCEPT !.pc = "crop"]
                 ELSE r)

\* cropImageWithFFmpeg returns: the cropped copy replaces the original, or
\* the crop failed and the original is used
cropReturns(i, cropped) ==
    /\ UNCHANGED notStageStoreVars
    /\ UNCHANGED <<serialVars, userVars>>
    /\ i \in 1..Len(stagedReqs)
    /\ stagedReqs[i].pc = "crop"
    /\ cropped => HasFile(i, "staged")
    /\ IF cropped
       THEN /\ disk' = Unlink(disk, i, "staged") \cup
                          {[req |-> i, name |-> "cropped", mtime |-> now]}
            /\ stagedReqs' = [stagedReqs EXCEPT ![i].pc = "upload",
                                                ![i].filePathToUpload = "cropped"]
       ELSE /\ stagedReqs' = [stagedReqs EXCEPT ![i].pc = "upload"]
            /\ UNCHANGED disk

\* cloudinary.uploader.upload returns or throws (it throws when the file is
\* gone); then the temporary files are unlinked, or the catch block unlinks
\* req.file.path
cloudinaryReturns(i, ok) ==
    /\ UNCHANGED notStageStoreVars
    /\ UNCHANGED <<serialVars, userVars>>
    /\ i \in 1..Len(stagedReqs)
    /\ stagedReqs[i].pc = "upload"
    /\ ok => HasFile(i, stagedReqs[i].filePathToUpload)
    /\ IF ok
       THEN /\ disk' = Unlink(Unlink(disk, i, stagedReqs[i].filePathToUpload), i, "staged")
            /\ stagedReqs' = [stagedReqs EXCEPT ![i].pc = "create"]
       ELSE /\ disk' = Unlink(disk, i, "staged")
            /\ stagedReqs' = [stagedReqs EXCEPT ![i] = StageDone(@, 500)]

\* Template.create resolves or rejects; a rejection reaches the catch block,
\* which unlinks req.file.path again
templateCreated(i, dbOk) ==
    /\ UNCHANGED notStageStoreVars
    /\ UNCHANGED <<userVars, uploads, batchResp>>
    /\ i \in 1..Len(stagedReqs)
    /\ stagedReqs[i].pc = "create"
    /\ disk' = Unlink(disk, i, "staged")
    /\ LET key == CounterKey(stagedReqs[i].sub)
           c2 == IncSeq(counters, key) IN
       IF ~dbOk
       THEN /\ stagedReqs' = [stagedReqs EXCEPT ![i] = StageDone(@, 500)]
            /\ UNCHANGED <<counters, templates>>
       ELSE IF stagedReqs[i].sub = ""
       THEN /\ counters' = c2
            /\ stagedReqs' = [stagedReqs EXCEPT ![i] = StageDone(@, 500)]
            /\ UNCHANGED templates
       ELSE /\ counters' = c2
            /\ templates' = templates \cup
                   {[subcategory |-> stagedReqs[i].sub, serial_no |-> c2[key]]}
            /\ stagedReqs' = [stagedReqs EXCEPT ![i] = StageDone(@, 201)]

\* `fileAge > this.maxFileAge`
OlderOrStaged(f) == now - f.mtime >= 0
TooOld(f) == now - f.mtime > MaxFileAge

\* performCleanup: every file of the uploads directory older than the max
\* file age is unlinked
performCleanup ==
    /\ UNCHANGED notStageStoreVars
    /\ UNCHANGED <<serialVars, userVars, stagedReqs>>
    /\ disk' = {f \in disk : ~TooOld(f)}

(***************************************************************************)
(* The bearer-token middleware of the main server                          *)
(***************************************************************************)
\* the values a deployment can give a signing secret
SecretValues == {1, 2, 3}

\* the user ids tokens are signed for
TokenUsers == {1, 2, 3}

NoMwResp == [op |-> "none", status |-> 0, next |-> FALSE, userId |-> 0, issuer |-> "none"]

\* the two services configured with different secrets
AuthMwInit ==
    /\ jwtSecret = 1
    /\ authApiSecret = 2
    /\ mwResp = NoMwResp

\* the two services configured independently of each other
AuthMwAnyInit ==
    /\ jwtSecret \in SecretValues
    /\ authApiSecret \in SecretValues
    /\ mwResp = NoMwResp

\* auth-controller.js signToken: jwt.sign({ id: userId }, config.auth.jwtSecret)
signToken(userId, expired) ==
    [issuer |-> "main", secret |-> jwtSecret, id |-> userId, sub |-> 0, expired |-> expired]

\* auth-api signToken: jwt.sign({ sub: user.id, name, email, phone }, secret);
\* the payload has no id claim (0)
authApiSignToken(userId, expired) ==
    [issuer |-> "auth-api", secret |-> authApiSecret, id |-> 0, sub |-> userId,
     expired |-> expired]

\* a token signed by somebody who knows neither secret
ForgedToken(userId, expired) ==
    [issuer |-> "forged", secret |-> 0, id |-> userId, sub |-> 0, expired |-> expired]

\* the Authorization headers of the runs: absent, a non-Bearer scheme, or
\* "Bearer " followed by a token of one of the issuers
AuthSchemes == {"none", "Basic", "Bearer"}
Issuers == {"main", "auth-api", "forged"}
TokenOf(issuer, userId, expired) ==
    CASE issuer = "main" -> signToken(userId, expired)
      [] issuer = "auth-api" -> authApiSignToken(userId, expired)
      [] issuer = "forged" -> ForgedToken(userId, expired)

\* jwt.verify(token, secret): the signature and the expiry
JwtVerifies(token, secret) == token.secret = secret /\ ~token.expired

\* authRequired
authRequired(scheme, issuer, userId, expired) ==
    /\ UNCHANGED notAuthMwVars
    /\ UNCHANGED <<jwtSecret, authApiSecret>>
    /\ LET token == TokenOf(issuer, userId, expired) IN
       IF scheme # "Bearer"
       THEN mwResp' = [op |-> "authRequired", status |-> 401, next |-> FALSE, userId |-> 0,
                       issuer |-> "none"]
       ELSE IF ~JwtVerifies(token, jwtSecret)
       THEN mwResp' = [op |-> "authRequired", status |-> 401, next |-> FALSE, userId |-> 0,
                       issuer |-> token.issuer]
       ELSE mwResp' = [op |-> "authRequired", status |-> 0, next |-> TRUE, userId |-> token.id,
                       issuer |-> token.issuer]

\* the auth microservice's authMiddleware: req.user is the whole payload
authMiddleware(scheme, issuer, userId, expired) ==
    /\ UNCHANGED notAuthMwVars
    /\ UNCHANGED <<jwtSecret, authApiSecret>>
    /\ LET token == TokenOf(issuer, userId, expired) IN
       IF scheme # "Bearer"
       THEN mwResp' = [op |-> "authMiddleware", status |-> 401, next |-> FALSE, userId |-> 0,
                       issuer |-> "none"]
       ELSE IF ~JwtVerifies(token, authApiSecret)
       THEN mwResp' = [op |-> "authMiddleware", status |-> 401, next |-> FALSE, userId |-> 0,
                       issuer |-> token.issuer]
       ELSE mwResp' = [op |-> "authMiddleware", status |-> 0, next |-> TRUE, userId |-> token.sub,
                       issuer |-> token.issuer]

(***************************************************************************)
(* The notification cache                                                  *)
(***************************************************************************)
\* the number of video templates created in one run
MaxVideos == 3

NotifyInit ==
    /\ videos = {}
    /\ videosCreated = 0
    /\ currentNotification = 0
    /\ selectResp = [op |-> "none", count |-> 0, returned |-> 0]

\* VideoController.upload reaches Template.create: a new video document
createVideoTemplate ==
    /\ UNCHANGED notNotifyVars
    /\ videosCreated < MaxVideos
    /\ videosCreated' = videosCreated + 1
    /\ videos' = videos \cup {videosCreated + 1}
    /\ UNCHANGED <<currentNotification, selectResp>>

\* deleteTemplate for a video document: Template.findByIdAndDelete(id)
deleteVideoTemplate(id) ==
    /\ UNCHANGED notNotifyVars
    /\ id \in videos
    /\ videos' = videos \ {id}
    /\ UNCHANGED <<videosCreated, currentNotification, selectResp>>

\* Template.findOne({ resource_type: 'video' }).skip(random): the document at
\* position random in id order
RECURSIVE SkipTo(_, _)
SkipTo(S, random) ==
    LET first == CHOOSE x \in S : \A y \in S : x <= y IN
    IF random = 0 THEN first ELSE SkipTo(S \ {first}, random - 1)

\* selectRandomVideo: nothing is selected when the count is 0 or the query
\* throws; the cache is written only when a video was found
selectRandomVideo(random, dbOk) ==
    /\ UNCHANGED notNotifyVars
    /\ UNCHANGED <<videos, videosCreated>>
    /\ LET count == Cardinality(videos) IN
       IF ~dbOk
       THEN /\ selectResp' = [op |-> "error", count |-> 0, returned |-> 0]
            /\ UNCHANGED currentNotification
       ELSE IF count = 0
       THEN /\ random = 0
            /\ selectResp' = [op |-> "select", count |-> 0, returned |-> 0]
            /\ UNCHANGED currentNotification
       ELSE /\ random < count
            /\ currentNotification' = SkipTo(videos, random)
            /\ selectResp' = [op |-> "select", count |-> count,
                              returned |-> SkipTo(videos, random)]

\* getCurrentNotification
getCurrentNotification == currentNotification

(***************************************************************************)
(* The specifications                                                      *)
(***************************************************************************)
Init ==
    /\ JobsInit
    /\ SerialInit
    /\ PayInit
    /\ webhookSecret = WebhookSecretValue
    /\ UsersInit
    /\ DelInit
    /\ CdnInit
    /\ DelOtpInit
    /\ SendInit
    /\ SubmitInit
    /\ StageInit
    /\ AuthMwInit
    /\ NotifyInit

\* the deletion runs start with phone 1 registered, phone 2 registered or not
InitDel ==
    /\ JobsInit
    /\ SerialInit
    /\ PayInit
    /\ webhookSecret = WebhookSecretValue
    /\ now = 0
    /\ \E registered \in {{1}, {1, 2}} :
          users = [p \in Phones |-> IF p \in registered THEN RegisteredUser ELSE NoUser]
    /\ authResp = [op |-> "none", status |-> 0, error |-> "none"]
    /\ DelInit
    /\ CdnInit
    /\ DelOtpInit
    /\ SendInit
    /\ SubmitInit
    /\ StageInit
    /\ AuthMwInit
    /\ NotifyInit

InitPay ==
    /\ JobsInit
    /\ SerialInit
    /\ PayInit
    /\ UsersInit
    /\ DelInit
    /\ CdnInit
    /\ DelOtpInit
    /\ SendInit
    /\ SubmitInit
    /\ StageInit
    /\ AuthMwInit
    /\ NotifyInit

InitBatch ==
    /\ JobsInit
    /\ counters = [k \in CounterKeys |-> IF k = "birthday" THEN MaxSerial ELSE 2]
    /\ templates = BatchCatalogue
    /\ uploads = <<>>
    /\ batchResp = [op |-> "none", status |-> 0]
    /\ PayInit
    /\ webhookSecret = WebhookSecretValue
    /\ UsersInit
    /\ DelInit
    /\ CdnInit
    /\ DelOtpInit
    /\ SendInit
    /\ SubmitInit
    /\ StageInit
    /\ AuthMwInit
    /\ NotifyInit

BatchNext ==
    \/ \E subRaw \in BatchSubInputs, startSerialRaw \in StartInputs,
          limitRaw \in LimitInputs, orderRaw \in OrderInputs :
          batchBySubcategory(subRaw, startSerialRaw, limitRaw, orderRaw)
    \/ \E t \in BatchCatalogue : deleteTemplate(t)

\* single-image jobs whose processor is processSingle over every buffer and
\* every combination of failing stages
PipelineNext ==
    \/ \E type \in {"single-image", "unregistered"} : createJob(type)
    \/ processNext
    \/ \E j \in 1..MaxJobs, buffer \in BufferInputs, fails \in StageFailures :
          singleProcessorRuns(j, buffer, fails)

DelOtpNext ==
    \/ \E t \in OtpClock : TickTimers(t)
    \/ \E p \in OtpPhoneInputs, c \in Codes, g \in BOOLEAN : sendDeletionOtp(p, c, g)
    \/ \E timer \in TimerInputs : otpTimerFires(timer)
    \/ \E p \in OtpPhoneInputs, c \in OtpInputs : submitWithOtp(p, c)

ListingNext ==
    \/ \E i \in 1..Len(searchStrategies), outcome \in SearchOutcomes : cdnChanges(i, outcome)
    \/ getTemplatesByCategory

JobsNext ==
    \/ \E type \in JobTypes : createJob(type)
    \/ processNext
    \/ \E j \in 1..MaxJobs, v \in ProgressInputs : reportProgress(j, v)
    \/ \E j \in 1..MaxJobs : processorResolves(j)
    \/ \E j \in 1..MaxJobs : processorRejects(j)

SerialNext ==
    \/ \E kind \in {"image", "video"}, raw \in RawSubcategories : uploadRequest(kind, raw)
    \/ \E r \in 1..MaxUploads : preValidate(r)
    \/ \E r \in 1..MaxUploads : validateAndSave(r)

PayNext ==
    \/ \E u \in PayUsers \cup {0}, g \in BOOLEAN : createOrder(u, g)
    \/ \E u \in PayUsers \cup {0}, o \in Orders, p \in PaymentIds, g \in BOOLEAN :
          \E sig \in SignatureInputs(o, p) : verifyPayment(u, o, p, sig, g)
    \/ \E e \in WebhookEvents, o \in Orders \cup {0}, d \in BOOLEAN :
          \E sig \in WebhookSignatureInputs(WebhookBody(e, o)) : handleWebhook(sig, e, o, d)

OtpNext ==
    \/ \E t \in 0..MaxNow : Tick(t)
    \/ \E p \in OtpPhoneInputs, m \in {"register", "signin"}, c \in Codes, g \in BOOLEAN :
          sendOtp(p, m, c, g)
    \/ \E p \in OtpPhoneInputs, c \in Codes, g \in BOOLEAN : resendOtp(p, c, g)
    \/ \E p \in OtpPhoneInputs, c \in OtpInputs, n \in NameInputs : verifyOtp(p, c, n)
    \/ \E p \in OtpPhoneInputs, c \in OtpInputs : checkOtp(p, c)

DelNext ==
    \/ \E t \in DelClock : Tick(t)
    \/ \E p \in Phones : submitDeletionRequest(p)
    \/ \E i \in 1..MaxRequests, st \in {"pending", "processing", "completed"} :
          updateDeletionRequest(i, st)
    \/ \E i \in 1..MaxRequests : scheduleDeletion(i)
    \/ \E findOk \in BOOLEAN, saveFails \in SUBSET Phones, updateFails \in SUBSET Phones :
          accountDeletionJob(findOk, saveFails, updateFails)

\* signing in while a deletion is scheduled: the deletion routes without
\* the administrator's status update, the two ways to sign in, and the cron
SignInNext ==
    \/ \E t \in DelClock : Tick(t)
    \/ \E p \in Phones : submitDeletionRequest(p)
    \/ \E i \in 1..MaxRequests : scheduleDeletion(i)
    \/ \E p \in OtpPhoneInputs, r \in BOOLEAN : login(p, r)
    \/ \E p \in OtpPhoneInputs, m \in {"register", "signin"} : sendOtp(p, m, 1, TRUE)
    \/ \E p \in OtpPhoneInputs, c \in Codes : verifyOtp(p, c, "Al")
    \/ accountDeletionJob(TRUE, {}, {})

SpecJobs == Init /\ [][JobsNext]_vars

\* the event loop runs every callback setImmediate has queued, and every
\* processor invocation eventually returns or throws
SpecJobsFair ==
    /\ Init
    /\ [][JobsNext]_vars
    /\ WF_vars(processNext)
    /\ \A j \in 1..MaxJobs : WF_vars(processorResolves(j) \/ processorRejects(j))
SpecSerial == Init /\ [][SerialNext]_vars
SpecPay == InitPay /\ [][PayNext]_vars
SpecOtp == Init /\ [][OtpNext]_vars
SpecDel == InitDel /\ [][DelNext]_vars
SpecBatch == InitBatch /\ [][BatchNext]_vars
SpecListing == Init /\ [][ListingNext]_vars
SpecPipeline == Init /\ [][PipelineNext]_vars
SpecDelOtp == InitDel /\ [][DelOtpNext]_vars
SpecSignIn == InitDel /\ [][SignInNext]_vars

SendNext ==
    \/ \E route \in SendRoutes, p \in OtpPhoneInputs, m \in {"register", "signin"} :
          otpSendBegins(route, p, m)
    \/ \E i \in 1..MaxSends, c \in Codes, g \in BOOLEAN : otpGatewayReturns(i, c, g)
    \/ \E i \in 1..MaxSends : otpHashStored(i)

SpecSend == InitDel /\ [][SendNext]_vars

\* submissions handled concurrently, against OTPs stored by overlapping
\* requests to the deletion send-otp route
SubmitNext ==
    \/ \E p \in OtpPhoneInputs : otpSendBegins("delete", p, "signin")
    \/ \E i \in 1..MaxSends, c \in Codes, g \in BOOLEAN : otpGatewayReturns(i, c, g)
    \/ \E i \in 1..MaxSends : otpHashStored(i)
    \/ \E p \in OtpPhoneInputs, c \in OtpInputs : submitBegins(p, c)
    \/ \E i \in 1..MaxSubmits : submitCompared(i)
    \/ \E i \in 1..MaxSubmits : submitUserFound(i)
    \/ \E i \in 1..MaxSubmits : submitSaved(i)

\* submissions handled concurrently while the clock runs and the send-otp
\* route's timers fire
SubmitClockNext ==
    \/ \E t \in SubmitClock : TickTimers(t)
    \/ sendDeletionOtp(1, 1, TRUE)
    \/ \E timer \in TimerInputs : otpTimerFires(timer)
    \/ \E p \in OtpPhoneInputs, c \in OtpInputs : submitBegins(p, c)
    \/ \E i \in 1..MaxSubmits : submitCompared(i)
    \/ \E i \in 1..MaxSubmits : submitUserFound(i)
    \/ \E i \in 1..MaxSubmits : submitSaved(i)

SpecSubmit == InitDel /\ [][SubmitNext]_vars
SpecSubmitClock == InitDel /\ [][SubmitClockNext]_vars

StageNext ==
    \/ \E t \in StageClock : Tick(t)
    \/ \E kind \in {"image", "video"}, raw \in RawSubcategories, f \in BOOLEAN, c \in BOOLEAN :
          stageUpload(kind, raw, f, c)
    \/ \E i \in 1..MaxStaged, cropped \in BOOLEAN : cropReturns(i, cropped)
    \/ \E i \in 1..MaxStaged, ok \in BOOLEAN : cloudinaryReturns(i, ok)
    \/ \E i \in 1..MaxStaged, dbOk \in BOOLEAN : templateCreated(i, dbOk)
    \/ performCleanup

SpecStage == Init /\ [][StageNext]_vars

InitAuthMw ==
    /\ JobsInit
    /\ SerialInit
    /\ PayInit
    /\ webhookSecret = WebhookSecretValue
    /\ UsersInit
    /\ DelInit
    /\ CdnInit
    /\ DelOtpInit
    /\ SendInit
    /\ SubmitInit
    /\ StageInit
    /\ AuthMwAnyInit
    /\ NotifyInit

AuthMwNext ==
    \/ \E scheme \in AuthSchemes, issuer \in Issuers, u \in TokenUsers, e \in BOOLEAN :
          authRequired(scheme, issuer, u, e)
    \/ \E scheme \in AuthSchemes, issuer \in Issuers, u \in TokenUsers, e \in BOOLEAN :
          authMiddleware(scheme, issuer, u, e)

SpecAuthMw == InitAuthMw /\ [][AuthMwNext]_vars

NotifyNext ==
    \/ createVideoTemplate
    \/ \E id \in 1..MaxVideos : deleteVideoTemplate(id)
    \/ \E random \in 0..(MaxVideos - 1), dbOk \in BOOLEAN : selectRandomVideo(random, dbOk)

SpecNotify == Init /\ [][NotifyNext]_vars

(***************************************************************************)
(* The claims                                                              *)
(***************************************************************************)
JobIds == 1..Len(jobs)

\* C1: in every reachable state of the job queue at most one job has status
\* "processing".
C1_AtMostOneProcessing ==
    Cardinality({j \in JobIds : jobs[j].status = "processing"}) <= 1

\* a job runs while another waits and a scheduled callback is still pending
C1_Witness ==
    /\ \E j \in JobIds : jobs[j].status = "processing"
    /\ \E j \in JobIds : jobs[j].status = "queued"
    /\ immediates > 0

\* C2: jobs become terminal in creation order: a job leaves "queued" only
\* when every job created before it is completed or failed.
C2_TerminalInCreationOrder ==
    \A a \in JobIds, b \in JobIds :
        (a < b /\ jobs[b].status # "queued") => jobs[a].status \in Terminal

\* three jobs of three types, created while a processor ran, all terminal
C2_Witness ==
    /\ Len(jobs) = 3
    /\ \A j \in JobIds : jobs[j].status \in Terminal
    /\ {jobs[j].type : j \in JobIds} = JobTypes
    /\ \E j \in JobIds : jobs[j].status = "completed"

\* C3: a job of a registered type, seen through getJob, only ever moves
\* queued -> processing -> completed | failed, one step at a time and never
\* out of a terminal status, and a completed job has progress 100.
C3_Lifecycle ==
    /\ [][\A j \in JobIds :
             jobs[j].type \in processors =>
                LET before == getJob(j).status
                    after == jobs'[j].status IN
                \/ after = before
                \/ before = "queued" /\ after = "processing"
                \/ before = "processing" /\ after \in Terminal]_vars
    /\ [](\A j \in JobIds :
             (jobs[j].type \in processors /\ getJob(j).status = "completed")
                => getJob(j).progress = 100)

\* a single-image job, which never reports progress, is completed, and a
\* batch job has failed
C3_Witness ==
    /\ \E j \in JobIds : jobs[j].type = "single-image" /\ jobs[j].status = "completed"
    /\ \E j \in JobIds : jobs[j].type = "batch-image" /\ jobs[j].status = "failed"

\* C4: once every creation request has been answered, the serial numbers of
\* each subcategory's templates are 1..N for its N creations, without gaps
\* and without repeats, however the requests interleaved.
C4_SerialsDense ==
    (\A r \in 1..Len(uploads) : uploads[r].pc = "done") =>
        \A sub \in CounterKeys :
            /\ SerialsOf(sub) = 1..Cardinality(CreatedIn(sub))
            /\ \A r1 \in CreatedIn(sub), r2 \in CreatedIn(sub) :
                  uploads[r1].serial = uploads[r2].serial => r1 = r2

\* C5: a Transaction that is "paid" or "failed" keeps that status through
\* every verify-payment request and webhook event.
C5_NeverBackward ==
    [][\A o \in Orders :
          txStatus[o] \in {"paid", "failed"} => txStatus'[o] = txStatus[o]]_vars

\* C6: verify-payment does not reject a request whose signature is the HMAC
\* of "<orderId>|<paymentId>" under the key secret, and any other signature
\* supplied is answered 400, leaves the order's Transaction "failed" and not
\* "paid", and activates no subscription.
C6_SignatureDecides ==
    [][payResp'.op = "verify-payment" =>
       \A u \in PayUsers, o \in Orders, p \in PaymentIds, g \in BOOLEAN :
          \A sig \in SignatureInputs(o, p) \ {0} :
             verifyPayment(u, o, p, sig, g) =>
                IF sig = Hmac(KeySecret, OrderPaymentMessage(o, p))
                THEN /\ payResp'.status # 400
                     /\ payResp'.status = 200 => txStatus'[o] = "paid"
                ELSE /\ payResp'.status = 400
                     /\ txStatus[o] # "none" => txStatus'[o] = "failed"
                     /\ txStatus'[o] # "paid"
                     /\ subscription' = subscription]_vars

\* C7 as stated: every webhook request is answered 200.
C7_Always200 == payResp.op = "webhook" => payResp.status = 200

\* C7, amended: a webhook request whose signature verifies (every request
\* when no webhook secret is configured) is answered 200 whatever the event
\* and also when the processing throws; any other is answered 400 and
\* changes no Transaction.
C7_VerifiedAlways200 ==
    [][payResp'.op = "webhook" =>
       \A e \in WebhookEvents, o \in Orders \cup {0}, d \in BOOLEAN :
          \A sig \in WebhookSignatureInputs(WebhookBody(e, o)) :
             handleWebhook(sig, e, o, d) =>
                IF webhookSecret = 0 \/ sig = Hmac(webhookSecret, WebhookBody(e, o))
                THEN payResp'.status = 200
                ELSE payResp'.status = 400 /\ txStatus' = txStatus]_vars

\* the webhook's processing threw and the answer was still 200
C7_Witness ==
    /\ payResp.op = "webhook"
    /\ payResp.status = 200
    /\ payResp.success = FALSE
    /\ webhookSecret # 0

\* C8: send-otp stores the hash of the code with an expiry 10 minutes after
\* the send; verify-otp with that code and a valid name succeeds and marks
\* the phone verified up to and at that instant, and after it fails with the
\* expiry error and leaves the user as it was.
C8_OtpRoundTrip ==
    [][/\ \A p \in Phones, m \in {"register", "signin"}, c \in Codes :
             (sendOtp(p, m, c, TRUE) /\ authResp'.status = 200) =>
                /\ users'[p].otp = BcryptHash(c)
                /\ users'[p].otpExpiry = now + 10
       /\ \A p \in Phones, c \in Codes :
             (verifyOtp(p, c, "Al") /\ users[p].exists /\ users[p].otp = BcryptHash(c)) =>
                IF now <= users[p].otpExpiry
                THEN /\ authResp'.status = 200
                     /\ users'[p].isPhoneVerified
                ELSE /\ authResp'.status = 400
                     /\ authResp'.error = "expired"
                     /\ users' = users]_vars

\* a verification that succeeded ten minutes or more into the run
C8_Witness ==
    /\ authResp.op = "verify-otp"
    /\ authResp.status = 200
    /\ users[1].isPhoneVerified
    /\ now >= 10

\* C9: while an unexpired OTP is stored, a wrong six-digit code given to
\* verify-otp or check-otp is answered with the invalid-OTP error, and a
\* wrong code never changes the user: hash, expiry, name and verified flag
\* stay as they were.
C9_WrongCodeChangesNothing ==
    [][\A p \in Phones, c \in Codes :
          (users[p].exists /\ users[p].otp \notin {0, BcryptHash(c)}) =>
             /\ \A n \in {"Al", "long81"} :
                   verifyOtp(p, c, n) =>
                      /\ users' = users
                      /\ now <= users[p].otpExpiry =>
                            authResp' = AuthResponse("verify-otp", 401, "invalid-otp")
             /\ checkOtp(p, c) =>
                   /\ users' = users
                   /\ now <= users[p].otpExpiry =>
                         authResp' = AuthResponse("check-otp", 401, "invalid-otp")]_vars

\* a wrong code was refused and the stored OTP is still there, unexpired
C9_Witness ==
    /\ authResp = AuthResponse("verify-otp", 401, "invalid-otp")
    /\ users[1].otp # 0
    /\ now <= users[1].otpExpiry
    /\ ~users[1].isPhoneVerified

\* C10: for a DeletionRequest whose user is neither "pending" nor "deleted",
\* the schedule-deletion endpoint sets the user "pending", deletionScheduledAt
\* to 15 days after the scheduling instant, and that request "processing".
C10_ScheduleSetsPending ==
    [][\A i \in 1..Len(delReqs) :
          LET p == delReqs[i].phone IN
          (scheduleDeletion(i) /\ users[p].exists
              /\ users[p].accountStatus \notin {"pending", "deleted"}) =>
             /\ users'[p].accountStatus = "pending"
             /\ users'[p].deletionScheduledAt = now + 15 * 24 * 60
             /\ delReqs'[i].status = "processing"]_vars

\* a deletion was scheduled at a reading after the start of the run
C10_Witness ==
    /\ delResp.op = "schedule"
    /\ now > 0
    /\ \E i \in 1..Len(delReqs) :
          /\ delReqs[i].status = "processing"
          /\ users[delReqs[i].phone].accountStatus = "pending"
          /\ users[delReqs[i].phone].deletionScheduledAt = now + 15 * 24 * 60

\* C11: a run of the deletion cron at time t moves a user to "deleted" and
\* clears deletionScheduledAt exactly when the user is "pending" with
\* deletionScheduledAt at or before t; a user not yet due (an hour before
\* the end of the grace period, say) keeps its record; and a failure while
\* processing one due user does not keep the other due users of the run
\* from being deleted.
C11_CronDeletesDue ==
    [][delResp'.op = "cron" =>
       \A findOk \in BOOLEAN, saveFails \in SUBSET Phones, updateFails \in SUBSET Phones :
          accountDeletionJob(findOk, saveFails, updateFails) =>
             \A p \in Phones :
                LET due == /\ users[p].exists
                           /\ users[p].accountStatus = "pending"
                           /\ users[p].deletionScheduledAt <= now IN
                /\ (users[p].accountStatus # "deleted" /\ users'[p].accountStatus = "deleted")
                      => due
                /\ (due /\ findOk /\ p \notin saveFails) =>
                      /\ users'[p].accountStatus = "deleted"
                      /\ users'[p].deletionScheduledAt = 0
                /\ ~due => users'[p] = users[p]]_vars

\* a run 15 days and 1 minute after the second scheduling logged one error
\* for a due user, who is still pending, and deleted the other due user
C11_Witness ==
    /\ delResp = [op |-> "cron", status |-> 1]
    /\ \E p \in Phones, q \in Phones :
          /\ users[p].accountStatus = "deleted"
          /\ users[q].accountStatus = "pending"
          /\ now = users[q].deletionScheduledAt + 1

\* C12: when the owner of an account that is "pending" signs in, by password
\* login or by OTP verification, before deletionScheduledAt, the account is
\* "active" again.
C12_SignInCancelsDeletion ==
    [][\A p \in Phones :
          (/\ users[p].exists
           /\ users[p].accountStatus = "pending"
           /\ now < users[p].deletionScheduledAt
           /\ \/ login(p, TRUE) /\ authResp'.status = 200
              \/ \E c \in Codes : verifyOtp(p, c, "Al") /\ authResp'.status = 200)
          => users'[p].accountStatus = "active"]_vars

\* the existing serials of the answered subcategory from start_serial on, and
\* those inside the window [start_serial, start_serial + limit - 1]
SerialsFromStart(r) == {k \in SerialsOf(r.subcategory) : k >= r.start_serial}
SerialsInWindow(r) ==
    {k \in SerialsOf(r.subcategory) :
        k >= r.start_serial /\ k <= r.start_serial + r.limit - 1}

\* C13 as stated: an ascending batch fetch returns the `limit` lowest existing
\* serials from start_serial on, skipping deleted serials (1,2,4 out of
\* 1,2,4,5 for start_serial 1 and limit 3).
C13_LowestExisting ==
    (batchResp.op = "batch" /\ batchResp.status = 200 /\ batchResp.order = "asc") =>
        batchResp.serials = Take(SortAsc(SerialsFromStart(batchResp)), batchResp.limit)

\* C13, amended: an ascending batch fetch returns, in ascending order, the
\* existing serials inside [start_serial, start_serial + limit - 1] and no
\* other: a deleted serial of the window is not replaced by a later one.
C13_ExistingInWindowAscending ==
    (batchResp.op = "batch" /\ batchResp.status = 200 /\ batchResp.order = "asc") =>
        batchResp.serials = SortAsc(SerialsInWindow(batchResp))

\* serials 1,2,4,5 exist, start_serial 1 and limit 3 were asked in ascending
\* order, and the answer is 1,2
C13_Witness ==
    /\ SerialsOf("birthday") = {1, 2, 4, 5}
    /\ batchResp = [op |-> "batch", status |-> 200, serials |-> <<1, 2>>,
                    subcategory |-> "birthday", start_serial |-> 1,
                    limit |-> 3, order |-> "asc"]

\* C14: in either order a batch fetch returns exactly the existing serials
\* inside [start_serial, start_serial + limit - 1], sorted in that order,
\* however many templates with larger serials the subcategory holds.
C14_ExactWindowEitherOrder ==
    (batchResp.op = "batch" /\ batchResp.status = 200) =>
        batchResp.serials =
            IF batchResp.order = "desc"
            THEN SortDesc(SerialsInWindow(batchResp))
            ELSE SortAsc(SerialsInWindow(batchResp))

\* the first strategy, in the fixed order, whose search answers a positive
\* total_count; 0 when there is none
FirstNonZero ==
    IF \E i \in 1..4 : searchResults[i] > 0
    THEN CHOOSE i \in 1..4 :
            searchResults[i] > 0 /\ \A j \in 1..(i - 1) : searchResults[j] <= 0
    ELSE 0

\* C15: the listing tries folder path, public-id prefix, tag, context field
\* in that order and returns the result of the first that yields a non-zero
\* total; it is empty only when every strategy throws or yields zero; and a
\* strategy that throws never aborts the listing.
C15_FirstNonZeroStrategy ==
    [][getTemplatesByCategory =>
          /\ searchStrategies = <<"folder", "public_id", "tags", "context">>
          /\ listResp'.status = 200
          /\ IF FirstNonZero = 0
             THEN listResp'.total_count = 0
             ELSE /\ listResp'.strategy = searchStrategies[FirstNonZero]
                  /\ listResp'.total_count = searchResults[FirstNonZero]]_vars

\* the folder search yields zero, the prefix search throws, and the listing
\* returns the two results of the tag search
C15_Witness ==
    /\ searchResults[1] = 0
    /\ searchResults[2] = -1
    /\ searchResults[3] = 2
    /\ listResp = [op |-> "list", status |-> 200, strategy |-> "tags", total_count |-> 2]

\* C16: a single-image job with a non-empty buffer ends "completed" whichever
\* of pre-resize, background removal and PNG finalize fail: each failing stage
\* falls back to its input buffer and processSingle returns success.
C16_StageFailureNeverFailsJob ==
    [][\A j \in JobIds, fails \in StageFailures :
          singleProcessorRuns(j, <<"upload">>, fails) =>
             /\ processSingle(<<"upload">>, fails).success
             /\ jobs'[j].status = "completed"]_vars

\* C17: every job createJob accepted eventually is completed or failed, when
\* every scheduled callback runs and every processor invocation returns or
\* throws: no job stays "queued" (or "processing") forever.
C17_EveryJobTerminates ==
    \A j \in 1..MaxJobs :
        (j \in JobIds) ~> (j \in JobIds /\ jobs[j].status \in Terminal)

\* the runner is idle with nothing scheduled, and every job is terminal: one
\* failed for want of a processor, one completed
C17_Witness ==
    /\ Len(jobs) = 3
    /\ queue = <<>>
    /\ immediates = 0
    /\ ~isProcessing
    /\ \E j \in JobIds : jobs[j].error = "no-processor"
    /\ \E j \in JobIds : jobs[j].status = "completed"
    /\ \A j \in JobIds : jobs[j].status \in Terminal

\* C18: every job that is completed or failed, for whatever reason it
\* failed, no longer holds its payload.
C18_TerminalHoldsNoPayload ==
    \A j \in JobIds : jobs[j].status \in Terminal => ~jobs[j].payload

\* C19: when a run of the cron moves a user to "deleted", every
\* DeletionRequest of that user's phone is "completed" with processedAt set
\* after the run, without an administrator's update and whichever request
\* was used to schedule the deletion.
C19_CronCompletesEveryRequest ==
    [][delResp'.op = "cron" =>
          \A p \in Phones :
             (users[p].accountStatus # "deleted" /\ users'[p].accountStatus = "deleted") =>
                \A i \in 1..Len(delReqs) :
                   delReqs[i].phone = p =>
                      /\ delReqs'[i].status = "completed"
                      /\ delReqs'[i].processed]_vars

\* C20: an OTP entry stored by the deletion send-otp endpoint is removed by a
\* timer only once 10 minutes have passed since the send that stored it:
\* whenever a timer callback removes a phone's entry, the clock has reached
\* that entry's own expiry.
C20_EntryLivesTenMinutes ==
    [][\A p \in Phones :
          (otpStore[p] # NoOtp /\ otpStore'[p] = NoOtp /\ otpTimers' # otpTimers)
              => now >= otpStore[p].otpExpiry]_vars

\* C21: when two OTP send requests for the same phone have both completed,
\* the code sent earlier is invalid and only the code sent later verifies:
\* the stored hash matches the later code and not the earlier one.
C21_LaterCodeWins ==
    \A i, k \in 1..Len(sendReqs) :
        (/\ sendReqs[i].pc = "done" /\ sendReqs[i].status = 200
         /\ sendReqs[k].pc = "done" /\ sendReqs[k].status = 200
         /\ sendReqs[i].route = sendReqs[k].route
         /\ sendReqs[i].phone = sendReqs[k].phone
         /\ sendReqs[i].sent < sendReqs[k].sent
         /\ sendReqs[i].otp # sendReqs[k].otp)
        => /\ BcryptCompare(sendReqs[k].otp, StoredOtpHash(sendReqs[k].route, sendReqs[k].phone))
           /\ ~BcryptCompare(sendReqs[i].otp, StoredOtpHash(sendReqs[i].route, sendReqs[i].phone))

\* C22: one deletion OTP authorizes at most one DeletionRequest: for every
\* phone, the submissions that persisted a request are no more than the OTPs
\* the send-otp route stored for it, also when submissions overlap.
C22_OneRequestPerOtp ==
    \A p \in Phones : Cardinality(Persisted(p)) <= Cardinality(StoredOtps(p))

C24_FinishedLeavesNoFile ==
    \A i \in 1..Len(stagedReqs) : stagedReqs[i].pc = "done" => FilesOf(i) = {}

\* C25: the cleanup sweep deletes a file only when its age has passed the
\* max file age, and it can do so while the request that staged the file has
\* not finished using it (the witness).
C25_SweepDeletesOnlyOld ==
    [][\A f \in disk :
          (f \notin disk' /\ UNCHANGED stagedReqs) => now - f.mtime > MaxFileAge]_vars

\* a request is waiting for the CDN upload of its staged file, which it has
\* not unlinked, and the file is gone from the disk
C25_Witness ==
    \E i \in 1..Len(stagedReqs) :
        /\ stagedReqs[i].pc = "upload"
        /\ ~HasFile(i, stagedReqs[i].filePathToUpload)

\* C26: a user's subscription is activated only by a payment of their own:
\* every active subscription is linked to a Transaction owned by that user.
C26_OwnPaymentOnly ==
    \A u \in PayUsers :
        subscription[u].status = "active"
            => txOwner[subscription[u].lastTransactionId] = u

\* C27: the auth middleware calls the next handler only for a token that
\* verifies and yields a user id, never for a token issued by the auth
\* microservice; in every other case it answers 401 without calling next.
C27_NextOnlyWithUserId ==
    mwResp.op = "authRequired" =>
        IF mwResp.next
        THEN mwResp.userId # 0 /\ mwResp.issuer # "auth-api"
        ELSE mwResp.status = 401

\* C28: the schedule-deletion endpoint called for a user who is already
\* "pending" or already "deleted" answers success and changes nothing: the
\* user's accountStatus and deletionScheduledAt and every DeletionRequest
\* stay as they were.
C28_ScheduleIdempotent ==
    [][\A i \in 1..MaxRequests :
          (/\ delResp'.op = "schedule"
           /\ i <= Len(delReqs)
           /\ users[delReqs[i].phone].exists
           /\ users[delReqs[i].phone].accountStatus \in {"pending", "deleted"}
           /\ scheduleDeletion(i))
          => /\ delResp'.status = 200
             /\ users' = users
             /\ delReqs' = delReqs]_vars

\* schedule-deletion has answered success for a request whose user the cron
\* had already deleted
C28_Witness ==
    /\ delResp = [op |-> "schedule", status |-> 200]
    /\ \E i \in 1..Len(delReqs) : users[delReqs[i].phone].accountStatus = "deleted"
    /\ \A p \in Phones : users[p].accountStatus # "active"

\* C29: the transition to "deleted" is irreversible: no step of login, OTP
\* send or verify, deletion request, schedule-deletion or the cron changes
\* the accountStatus of a deleted user.
C29_DeletedIsFinal ==
    [][\A p \in Phones :
          users[p].accountStatus = "deleted" => users'[p].accountStatus = "deleted"]_vars

\* a deleted account for which an OTP has been sent after the deletion
C29_Witness ==
    \E p \in Phones :
        /\ users[p].accountStatus = "deleted"
        /\ users[p].otpExpiry > GracePeriod

\* C30: after a refresh that ran while no video template exists,
\* getCurrentNotification returns an absent value, not a previously selected
\* template.
C30_NoVideoNoNotification ==
    (selectResp.op = "select" /\ selectResp.count = 0 /\ videos = {})
        => getCurrentNotification = 0

====
